---- MODULE Spec2Model ----
(***************************************************************************)
(* KINETIC-OS: the per-frame gesture state machine of KineticOS.run and    *)
(* KineticOS._process_gestures, with the CursorMath and HandEngine         *)
(* functions they call.                                                    *)
(*                                                                         *)
(* Numbers.  Landmark coordinates are fixed-point: the normalized value    *)
(* 1.0 is CoordScale units, so 0.2 is 400 and CLICK_THRESHOLD 0.05 is 100. *)
(* Timestamps are in units of 0.05 s, so CLICK_DEBOUNCE_TIME 0.3 s is 6    *)
(* and SCROLL_DEBOUNCE_TIME 0.05 s is 1.  A float division is a division   *)
(* rounded to the nearest representable value (ties to even), int() is     *)
(* truncation toward zero.                                                 *)
(***************************************************************************)
EXTENDS Integers, Sequences, FiniteSets, TLC

VARIABLES
    current_mode,            \* self.current_mode
    last_left_click_time,    \* self.last_left_click_time
    last_right_click_time,   \* self.last_right_click_time
    last_scroll_time,        \* self.last_scroll_time
    is_left_clicking,        \* self.is_left_clicking
    is_right_clicking,       \* self.is_right_clicking
    is_scrolling,            \* self.is_scrolling
    prev_x,                  \* CursorMath._prev_x      (None or <<v>>)
    prev_y,                  \* CursorMath._prev_y      (None or <<v>>)
    prev_scroll_y,           \* CursorMath._prev_scroll_y (None or <<v>>)
    current_time,            \* run(): current_time of the latest iteration
    running,                 \* run(): the while loop has not hit a break
    hand_data,               \* run(): hand_data of the latest processed frame
    result,                  \* run(): value returned by _process_gestures
    smooth,                  \* _process_gestures: (smooth_x, smooth_y)
    out,                     \* pyautogui calls made for the latest processed frame
    trace                    \* the frames processed so far (recorded by TraceStep only)

vars == <<current_mode, last_left_click_time, last_right_click_time,
          last_scroll_time, is_left_clicking, is_right_clicking, is_scrolling,
          prev_x, prev_y, prev_scroll_y, current_time, running, hand_data,
          result, smooth, out, trace>>

(***************************************************************************)
(* Bounds of the model.                                                    *)
(***************************************************************************)
MaxTime == 14
MaxTrace == 5
MaxMapCalls == 2
MaxPoseCalls == 2
MaxEdgeFrames == 4
MaxRegionCalls == 1
MaxStartFrames == 4

(***************************************************************************)
(* config.py                                                               *)
(***************************************************************************)
CoordScale == 2000
SMOOTHING_FACTOR == 6
ACTIVE_REGION_X_START == 400
ACTIVE_REGION_X_END == 1600
ACTIVE_REGION_Y_START == 400
ACTIVE_REGION_Y_END == 1600
CLICK_THRESHOLD == 100
SCROLL_SENSITIVITY == 10
FAILSAFE_X_END == 100
FAILSAFE_Y_END == 100
CLICK_DEBOUNCE_TIME == 6
SCROLL_DEBOUNCE_TIME == 1
MODE_ACTIVE == "ACTIVE"
MODE_SCROLL == "SCROLL"
MODE_IDLE == "IDLE"

\* pyautogui.size() of the host
ScreenWidth == 1920
ScreenHeight == 1080

\* return -999 of _process_gestures, tested by run()
EXIT_CODE == 0 - 999

None == <<>>
Some(v) == <<v>>

(***************************************************************************)
(* hand_engine.py                                                          *)
(***************************************************************************)
WRIST == 0
THUMB_TIP == 4
INDEX_FINGER_MCP == 5
INDEX_FINGER_PIP == 6
INDEX_FINGER_TIP == 8
MIDDLE_FINGER_MCP == 9
MIDDLE_FINGER_PIP == 10
MIDDLE_FINGER_TIP == 12
RING_FINGER_MCP == 13
RING_FINGER_PIP == 14
RING_FINGER_TIP == 16
PINKY_MCP == 17
PINKY_PIP == 18
PINKY_TIP == 20

\* hand is the landmarks list: a function from 0..20 to <<x, y, z>>
get_landmark(hand, landmark_id) == hand[landmark_id]

finger_tips(finger) ==
    CASE finger = "thumb"  -> THUMB_TIP
      [] finger = "index"  -> INDEX_FINGER_TIP
      [] finger = "middle" -> MIDDLE_FINGER_TIP
      [] finger = "ring"   -> RING_FINGER_TIP
      [] finger = "pinky"  -> PINKY_TIP

get_fingertip(hand, finger) == get_landmark(hand, finger_tips(finger))

finger_joints(finger) ==
    CASE finger = "index"  -> <<INDEX_FINGER_TIP, INDEX_FINGER_PIP, INDEX_FINGER_MCP>>
      [] finger = "middle" -> <<MIDDLE_FINGER_TIP, MIDDLE_FINGER_PIP, MIDDLE_FINGER_MCP>>
      [] finger = "ring"   -> <<RING_FINGER_TIP, RING_FINGER_PIP, RING_FINGER_MCP>>
      [] finger = "pinky"  -> <<PINKY_TIP, PINKY_PIP, PINKY_MCP>>

\* squared planar distance: (p[0]-q[0])**2 + (p[1]-q[1])**2
SqDist(p, q) == (p[1] - q[1]) * (p[1] - q[1]) + (p[2] - q[2]) * (p[2] - q[2])

\* tip_to_mcp < pip_to_mcp * 1.2, both sides non-negative, compared squared:
\* tip_to_mcp^2 < 1.44 * pip_to_mcp^2
is_finger_curled(hand, finger) ==
    LET j   == finger_joints(finger)
        tip == hand[j[1]]
        pip == hand[j[2]]
        mcp == hand[j[3]]
    IN  25 * SqDist(tip, mcp) < 36 * SqDist(pip, mcp)

\* faulty variant: the pinky is not looked at
is_fist_ThreeFingers(hand) ==
    \A f \in {"index", "middle", "ring"} : is_finger_curled(hand, f)

is_fist(hand) ==
    \A f \in {"index", "middle", "ring", "pinky"} : is_finger_curled(hand, f)

(***************************************************************************)
(* cursor_math.py                                                          *)
(***************************************************************************)
\* a / b for b > 0, rounded to the nearest unit, ties to the even one
RoundDiv(a, b) ==
    LET q == a \div b
        r == a % b
    IN  IF 2 * r < b THEN q
        ELSE IF 2 * r > b THEN q + 1
        ELSE IF q % 2 = 0 THEN q ELSE q + 1

\* int(a / b) for b > 0: truncation toward zero
Trunc(a, b) == IF a >= 0 THEN a \div b ELSE 0 - ((0 - a) \div b)

Max(a, b) == IF a >= b THEN a ELSE b
Min(a, b) == IF a <= b THEN a ELSE b
Abs(a) == IF a >= 0 THEN a ELSE 0 - a

\* faulty variant: the step is not divided by the smoothing factor
Ema_Unsmoothed(prev, raw) == prev + (raw - prev)

\* faulty variant: the step is multiplied by the smoothing factor
Ema_Multiplied(prev, raw) == prev + (raw - prev) * SMOOTHING_FACTOR

\* one axis of the EMA step: prev + (raw - prev) / smoothing
Ema(prev, raw) == prev + RoundDiv(raw - prev, SMOOTHING_FACTOR)

\* smooth_position: the returned pair, which is also the new (_prev_x, _prev_y)
smooth_position(px, py, raw_x, raw_y) ==
    IF px = None \/ py = None
    THEN <<raw_x, raw_y>>
    ELSE <<Ema(px[1], raw_x), Ema(py[1], raw_y)>>

\* faulty variant: the result is not clamped to the screen
map_to_screen_NoOutputClamp(norm_x, norm_y) ==
    LET clamped_x == Max(ACTIVE_REGION_X_START, Min(ACTIVE_REGION_X_END, norm_x))
        clamped_y == Max(ACTIVE_REGION_Y_START, Min(ACTIVE_REGION_Y_END, norm_y))
        active_width  == ACTIVE_REGION_X_END - ACTIVE_REGION_X_START
        active_height == ACTIVE_REGION_Y_END - ACTIVE_REGION_Y_START
    IN  <<Trunc((active_width - (clamped_x - ACTIVE_REGION_X_START)) * ScreenWidth,
                active_width),
          Trunc((clamped_y - ACTIVE_REGION_Y_START) * ScreenHeight, active_height)>>

\* faulty variant: only the x axis is clamped, before and after the scaling
map_to_screen_XOnlyClamps(norm_x, norm_y) ==
    LET clamped_x == Max(ACTIVE_REGION_X_START, Min(ACTIVE_REGION_X_END, norm_x))
        active_width  == ACTIVE_REGION_X_END - ACTIVE_REGION_X_START
        active_height == ACTIVE_REGION_Y_END - ACTIVE_REGION_Y_START
        screen_x == Trunc((active_width - (clamped_x - ACTIVE_REGION_X_START)) * ScreenWidth,
                          active_width)
    IN  <<Max(0, Min(ScreenWidth - 1, screen_x)),
          Trunc((norm_y - ACTIVE_REGION_Y_START) * ScreenHeight, active_height)>>

\* faulty variant: the x axis is not mirrored
map_to_screen_NotMirrored(norm_x, norm_y) ==
    LET clamped_x == Max(ACTIVE_REGION_X_START, Min(ACTIVE_REGION_X_END, norm_x))
        clamped_y == Max(ACTIVE_REGION_Y_START, Min(ACTIVE_REGION_Y_END, norm_y))
        active_width  == ACTIVE_REGION_X_END - ACTIVE_REGION_X_START
        active_height == ACTIVE_REGION_Y_END - ACTIVE_REGION_Y_START
        screen_x == Trunc((clamped_x - ACTIVE_REGION_X_START) * ScreenWidth, active_width)
        screen_y == Trunc((clamped_y - ACTIVE_REGION_Y_START) * ScreenHeight, active_height)
    IN  <<Max(0, Min(ScreenWidth - 1, screen_x)), Max(0, Min(ScreenHeight - 1, screen_y))>>

\* faulty variant: the start of the active region is not subtracted
map_to_screen_NoOrigin(norm_x, norm_y) ==
    LET clamped_x == Max(ACTIVE_REGION_X_START, Min(ACTIVE_REGION_X_END, norm_x))
        clamped_y == Max(ACTIVE_REGION_Y_START, Min(ACTIVE_REGION_Y_END, norm_y))
        active_width  == ACTIVE_REGION_X_END - ACTIVE_REGION_X_START
        active_height == ACTIVE_REGION_Y_END - ACTIVE_REGION_Y_START
        screen_x == Trunc((active_width - clamped_x) * ScreenWidth, active_width)
        screen_y == Trunc(clamped_y * ScreenHeight, active_height)
    IN  <<Max(0, Min(ScreenWidth - 1, screen_x)), Max(0, Min(ScreenHeight - 1, screen_y))>>

map_to_screen(norm_x, norm_y) ==
    LET clamped_x == Max(ACTIVE_REGION_X_START, Min(ACTIVE_REGION_X_END, norm_x))
        clamped_y == Max(ACTIVE_REGION_Y_START, Min(ACTIVE_REGION_Y_END, norm_y))
        active_width  == ACTIVE_REGION_X_END - ACTIVE_REGION_X_START
        active_height == ACTIVE_REGION_Y_END - ACTIVE_REGION_Y_START
        \* int((1.0 - (clamped_x - x_start) / active_width) * screen_width)
        screen_x == Trunc((active_width - (clamped_x - ACTIVE_REGION_X_START)) * ScreenWidth,
                          active_width)
        screen_y == Trunc((clamped_y - ACTIVE_REGION_Y_START) * ScreenHeight, active_height)
    IN  <<Max(0, Min(ScreenWidth - 1, screen_x)), Max(0, Min(ScreenHeight - 1, screen_y))>>

\* faulty variant of MapWithRegion: the x axis is not mirrored
MapWithRegion_NotMirrored(x_start, x_end, y_start, y_end, norm_x, norm_y) ==
    LET clamped_x == Max(x_start, Min(x_end, norm_x))
        clamped_y == Max(y_start, Min(y_end, norm_y))
        screen_x == Trunc((clamped_x - x_start) * ScreenWidth, x_end - x_start)
        screen_y == Trunc((clamped_y - y_start) * ScreenHeight, y_end - y_start)
    IN  <<Max(0, Min(ScreenWidth - 1, screen_x)), Max(0, Min(ScreenHeight - 1, screen_y))>>

\* map_to_screen of a CursorMath whose active region is (x_start, x_end,
\* y_start, y_end), with x_start < x_end and y_start < y_end
MapWithRegion(x_start, x_end, y_start, y_end, norm_x, norm_y) ==
    LET clamped_x == Max(x_start, Min(x_end, norm_x))
        clamped_y == Max(y_start, Min(y_end, norm_y))
        active_width  == x_end - x_start
        active_height == y_end - y_start
        screen_x == Trunc((active_width - (clamped_x - x_start)) * ScreenWidth, active_width)
        screen_y == Trunc((clamped_y - y_start) * ScreenHeight, active_height)
    IN  <<Max(0, Min(ScreenWidth - 1, screen_x)), Max(0, Min(ScreenHeight - 1, screen_y))>>

\* sqrt(dx*dx + dy*dy) < CLICK_THRESHOLD, compared squared
is_click(thumb_tip, finger_tip) ==
    SqDist(thumb_tip, finger_tip) < CLICK_THRESHOLD * CLICK_THRESHOLD

\* faulty variant: the delta is rounded to the nearest integer, not truncated
calculate_scroll_delta_Rounded(ref, current_y) ==
    IF ref = None
    THEN 0
    ELSE RoundDiv((current_y - ref[1]) * SCROLL_SENSITIVITY * 100, CoordScale)

\* calculate_scroll_delta: the returned delta; the new reference is Some(current_y)
calculate_scroll_delta(ref, current_y) ==
    IF ref = None
    THEN 0
    ELSE Trunc((current_y - ref[1]) * SCROLL_SENSITIVITY * 100, CoordScale)

\* faulty variant: the y comparison is turned around
is_in_failsafe_region_YFlipped(screen_x, screen_y) ==
    screen_x < FAILSAFE_X_END /\ screen_y > FAILSAFE_Y_END

is_in_failsafe_region(screen_x, screen_y) ==
    screen_x < FAILSAFE_X_END /\ screen_y < FAILSAFE_Y_END

(***************************************************************************)
(* Hand samples delivered by HandEngine.process_frame.  A sample is built  *)
(* from the index fingertip, the thumb tip relative to it, the distance of *)
(* each finger's tip from its MCP joint, and the wrist height.             *)
(***************************************************************************)
Fingers == {"index", "middle", "ring", "pinky"}

\* index fingertips: one outside the fail-safe corner, one inside it; the
\* smoothed position needs two frames to follow the hand from one to the other
IndexTips == {<<1530, 506>>, <<1560, 494>>}

\* thumb tip relative to the index tip; the middle tip is 120 units to its right:
\* touching the index only, the middle only, both, or neither
ThumbOffsets == {<<0 - 30, 0>>, <<150, 0>>, <<60, 0>>, <<60, 90>>}

\* tip-to-MCP distance of each finger; the PIP joint is 50 units from the MCP:
\* 30 is curled, 60 is exactly 1.2 * 50, 150 is extended
PoseFist      == [f \in Fingers |-> 30]
PoseOpen      == [f \in Fingers |-> 150]
PoseIndexOut  == [f \in Fingers |-> IF f = "index" THEN 150 ELSE 30]
PosePinkyEdge == [f \in Fingers |-> IF f = "pinky" THEN 60 ELSE 30]

\* wrist heights, the full height of the frame apart
WristYs == {1, 1999}

MkHand(tip, thumb, pose, wrist_y) ==
    LET ftip(f) == CASE f = "index"  -> tip
                     [] f = "middle" -> <<tip[1] + 120, tip[2]>>
                     [] f = "ring"   -> <<1200, 700>>
                     [] f = "pinky"  -> <<1300, 700>>
        tipOf(i) == CHOOSE f \in Fingers : finger_joints(f)[1] = i
        pipOf(i) == CHOOSE f \in Fingers : finger_joints(f)[2] = i
        mcpOf(i) == CHOOSE f \in Fingers : finger_joints(f)[3] = i
    IN  [i \in 0..20 |->
            IF i = WRIST THEN <<1000, wrist_y, 0>>
            ELSE IF i = THUMB_TIP THEN <<tip[1] + thumb[1], tip[2] + thumb[2], 0>>
            ELSE IF \E f \in Fingers : finger_joints(f)[1] = i
                 THEN <<ftip(tipOf(i))[1], ftip(tipOf(i))[2], 0>>
            ELSE IF \E f \in Fingers : finger_joints(f)[2] = i
                 THEN <<ftip(pipOf(i))[1], ftip(pipOf(i))[2] + pose[pipOf(i)] - 50, 0>>
            ELSE IF \E f \in Fingers : finger_joints(f)[3] = i
                 THEN <<ftip(mcpOf(i))[1], ftip(mcpOf(i))[2] + pose[mcpOf(i)], 0>>
            ELSE <<1000, 1000, 0>>]

OpenSamples ==
    {MkHand(tip, th, pose, 1999) :
        tip \in IndexTips, th \in ThumbOffsets, pose \in {PosePinkyEdge}}

FistSamples ==
    {MkHand(tip, th, PoseFist, w) :
        tip \in IndexTips, th \in {<<60, 0>>}, w \in WristYs}

Samples == OpenSamples \cup FistSamples

\* timestamps time.time() may return: 0, and later every multiple of the click
\* debounce interval plus one and its successor, so that gaps equal to, below
\* and above both debounce intervals occur
ClockReadings ==
    {t \in 0..MaxTime :
        t = 0 \/ (t > CLICK_DEBOUNCE_TIME /\ t % (CLICK_DEBOUNCE_TIME + 1) <= 1)}

(***************************************************************************)
(* main.py                                                                 *)
(***************************************************************************)
Kinds == {"click_left", "click_right", "scroll"}

\* faulty variant: the coordinates are passed in the wrong order
MoveTo_Swapped(x, y) == [call |-> "moveTo", a |-> y, b |-> x]

MoveTo(x, y)  == [call |-> "moveTo", a |-> x, b |-> y]
Click(button) == [call |-> button, a |-> 0, b |-> 0]
Scroll(clicks) == [call |-> "scroll", a |-> clicks, b |-> 0]

Calls(o) == {o[i].call : i \in 1..Len(o)}

_check_left_click(hand) ==
    is_click(get_fingertip(hand, "thumb"), get_fingertip(hand, "index"))

_check_right_click(hand) ==
    is_click(get_fingertip(hand, "thumb"), get_fingertip(hand, "middle"))

\* faulty variant: the debounce test is not strict
ClickFires_NonStrict(is_clicking, was_clicking, t, last_time) ==
    is_clicking /\ ~was_clicking /\ (t - last_time) >= CLICK_DEBOUNCE_TIME

\* faulty variant: fires while the pinch is held (no edge test)
ClickFires_Level(is_clicking, was_clicking, t, last_time) ==
    is_clicking /\ (t - last_time) > CLICK_DEBOUNCE_TIME

\* faulty variant: fires on every rising edge (no debounce test)
ClickFires_NoDebounce(is_clicking, was_clicking, t, last_time) ==
    is_clicking /\ ~was_clicking

\* lines 155-157 and 166-168: rising edge, then the debounce test
ClickFires(is_clicking, was_clicking, t, last_time) ==
    is_clicking /\ ~was_clicking /\ (t - last_time) > CLICK_DEBOUNCE_TIME

\* faulty variant: the edge flag is raised only by a click that fired
EdgeFlag_RaisedOnFire(is_clicking, was_clicking, fired) ==
    is_clicking /\ (was_clicking \/ fired)

\* lines 162 and 173: the edge flag takes the predicate's value
EdgeFlag(is_clicking, was_clicking, fired) == is_clicking

\* faulty variant: a scroll is emitted on every non-zero delta (no debounce test)
ScrollFires_NoDebounce(scroll_delta, t, last_time) ==
    Abs(scroll_delta) > 0

\* lines 141-142
ScrollFires(scroll_delta, t, last_time) ==
    Abs(scroll_delta) > 0 /\ (t - last_time) > SCROLL_DEBOUNCE_TIME

\* faulty variant: the reference moves only when a scroll is emitted, so that
\* motion not yet emitted is carried over
AdvanceScrollReference_OnFire(ref, current_y, fired) ==
    IF ref = None \/ fired THEN Some(current_y) ELSE ref

\* calculate_scroll_delta stores current_y as the reference on every call
AdvanceScrollReference(ref, current_y, fired) == Some(current_y)

\* faulty variant: the reference is not reset when scroll mode is entered
ScrollReference_NoReset(scrolling, ref) == ref

\* line 131: reset_scroll_reference() is called when scroll mode is entered
ScrollReference(scrolling, ref) == IF ~scrolling THEN None ELSE ref

\* line 123: the fail-safe test on the mapped, smoothed index fingertip
FailsafeTriggered(sm) ==
    LET scr == map_to_screen(sm[1], sm[2])
    IN  is_in_failsafe_region(scr[1], scr[2])

\* faulty variant: run() tests for the wrong special value
ExitRequested_WrongValue(res) == res = 999

\* line 211: run() breaks on the special return value
ExitRequested(res) == res = EXIT_CODE

\* faulty variant: the fist test comes before the fail-safe test
_process_gestures_FistFirst(hand, t) ==
    LET index_tip == get_fingertip(hand, "index")
        sm        == smooth_position(prev_x, prev_y, index_tip[1], index_tip[2])
        scr       == map_to_screen(sm[1], sm[2])
    IN  /\ prev_x' = Some(sm[1])
        /\ prev_y' = Some(sm[2])
        /\ smooth' = Some(sm)
        /\ IF FailsafeTriggered(sm) /\ ~is_fist(hand)
           THEN /\ result' = EXIT_CODE
                /\ out' = <<>>
                /\ UNCHANGED <<current_mode, is_scrolling, prev_scroll_y,
                               last_scroll_time, last_left_click_time,
                               last_right_click_time, is_left_clicking,
                               is_right_clicking>>
           ELSE IF is_fist(hand)
           THEN LET ref          == ScrollReference(is_scrolling, prev_scroll_y)
                    wrist        == get_landmark(hand, WRIST)
                    scroll_delta == calculate_scroll_delta(ref, wrist[2])
                    fire         == ScrollFires(scroll_delta, t, last_scroll_time)
                IN  /\ current_mode' = MODE_SCROLL
                    /\ is_scrolling' = TRUE
                    /\ prev_scroll_y' = AdvanceScrollReference(ref, wrist[2], fire)
                    /\ out' = IF fire THEN <<Scroll(0 - scroll_delta)>> ELSE <<>>
                    /\ last_scroll_time' = IF fire THEN t ELSE last_scroll_time
                    /\ result' = scroll_delta
                    /\ UNCHANGED <<last_left_click_time, last_right_click_time,
                                   is_left_clicking, is_right_clicking>>
           ELSE LET left      == _check_left_click(hand)
                    right     == _check_right_click(hand)
                    fireLeft  == ClickFires(left, is_left_clicking, t, last_left_click_time)
                    fireRight == ClickFires(right, is_right_clicking, t, last_right_click_time)
                IN  /\ is_scrolling' = FALSE
                    /\ current_mode' = MODE_ACTIVE
                    /\ out' = <<MoveTo(scr[1], scr[2])>>
                              \o (IF fireLeft THEN <<Click("click_left")>> ELSE <<>>)
                              \o (IF fireRight THEN <<Click("click_right")>> ELSE <<>>)
                    /\ last_left_click_time' = IF fireLeft THEN t ELSE last_left_click_time
                    /\ is_left_clicking' = EdgeFlag(left, is_left_clicking, fireLeft)
                    /\ last_right_click_time' = IF fireRight THEN t ELSE last_right_click_time
                    /\ is_right_clicking' = EdgeFlag(right, is_right_clicking, fireRight)
                    /\ result' = 0
                    /\ UNCHANGED <<prev_scroll_y, last_scroll_time>>

\* faulty variant: a fist frame leaves a set filter state as it was
_process_gestures_FilterFrozenInScroll(hand, t) ==
    LET index_tip == get_fingertip(hand, "index")
        sm        == smooth_position(prev_x, prev_y, index_tip[1], index_tip[2])
        scr       == map_to_screen(sm[1], sm[2])
    IN  /\ prev_x' = IF is_fist(hand) /\ prev_x # None THEN prev_x ELSE Some(sm[1])
        /\ prev_y' = IF is_fist(hand) /\ prev_y # None THEN prev_y ELSE Some(sm[2])
        /\ smooth' = Some(sm)
        /\ IF FailsafeTriggered(sm)
           THEN /\ result' = EXIT_CODE
                /\ out' = <<>>
                /\ UNCHANGED <<current_mode, is_scrolling, prev_scroll_y,
                               last_scroll_time, last_left_click_time,
                               last_right_click_time, is_left_clicking,
                               is_right_clicking>>
           ELSE IF is_fist(hand)
           THEN LET ref          == ScrollReference(is_scrolling, prev_scroll_y)
                    wrist        == get_landmark(hand, WRIST)
                    scroll_delta == calculate_scroll_delta(ref, wrist[2])
                    fire         == ScrollFires(scroll_delta, t, last_scroll_time)
                IN  /\ current_mode' = MODE_SCROLL
                    /\ is_scrolling' = TRUE
                    /\ prev_scroll_y' = AdvanceScrollReference(ref, wrist[2], fire)
                    /\ out' = IF fire THEN <<Scroll(0 - scroll_delta)>> ELSE <<>>
                    /\ last_scroll_time' = IF fire THEN t ELSE last_scroll_time
                    /\ result' = scroll_delta
                    /\ UNCHANGED <<last_left_click_time, last_right_click_time,
                                   is_left_clicking, is_right_clicking>>
           ELSE LET left      == _check_left_click(hand)
                    right     == _check_right_click(hand)
                    fireLeft  == ClickFires(left, is_left_clicking, t, last_left_click_time)
                    fireRight == ClickFires(right, is_right_clicking, t, last_right_click_time)
                IN  /\ is_scrolling' = FALSE
                    /\ current_mode' = MODE_ACTIVE
                    /\ out' = <<MoveTo(scr[1], scr[2])>>
                              \o (IF fireLeft THEN <<Click("click_left")>> ELSE <<>>)
                              \o (IF fireRight THEN <<Click("click_right")>> ELSE <<>>)
                    /\ last_left_click_time' = IF fireLeft THEN t ELSE last_left_click_time
                    /\ is_left_clicking' = EdgeFlag(left, is_left_clicking, fireLeft)
                    /\ last_right_click_time' = IF fireRight THEN t ELSE last_right_click_time
                    /\ is_right_clicking' = EdgeFlag(right, is_right_clicking, fireRight)
                    /\ result' = 0
                    /\ UNCHANGED <<prev_scroll_y, last_scroll_time>>

_process_gestures(hand, t) ==
    LET index_tip == get_fingertip(hand, "index")
        sm        == smooth_position(prev_x, prev_y, index_tip[1], index_tip[2])
        scr       == map_to_screen(sm[1], sm[2])
    IN  /\ prev_x' = Some(sm[1])
        /\ prev_y' = Some(sm[2])
        /\ smooth' = Some(sm)
        /\ IF FailsafeTriggered(sm)
           THEN /\ result' = EXIT_CODE
                /\ out' = <<>>
                /\ UNCHANGED <<current_mode, is_scrolling, prev_scroll_y,
                               last_scroll_time, last_left_click_time,
                               last_right_click_time, is_left_clicking,
                               is_right_clicking>>
           ELSE IF is_fist(hand)
           THEN LET ref          == ScrollReference(is_scrolling, prev_scroll_y)
                    wrist        == get_landmark(hand, WRIST)
                    scroll_delta == calculate_scroll_delta(ref, wrist[2])
                    fire         == ScrollFires(scroll_delta, t, last_scroll_time)
                IN  /\ current_mode' = MODE_SCROLL
                    /\ is_scrolling' = TRUE
                    /\ prev_scroll_y' = AdvanceScrollReference(ref, wrist[2], fire)
                    /\ out' = IF fire THEN <<Scroll(0 - scroll_delta)>> ELSE <<>>
                    /\ last_scroll_time' = IF fire THEN t ELSE last_scroll_time
                    /\ result' = scroll_delta
                    /\ UNCHANGED <<last_left_click_time, last_right_click_time,
                                   is_left_clicking, is_right_clicking>>
           ELSE LET left      == _check_left_click(hand)
                    right     == _check_right_click(hand)
                    fireLeft  == ClickFires(left, is_left_clicking, t, last_left_click_time)
                    fireRight == ClickFires(right, is_right_clicking, t, last_right_click_time)
                IN  /\ is_scrolling' = FALSE
                    /\ current_mode' = MODE_ACTIVE
                    /\ out' = <<MoveTo(scr[1], scr[2])>>
                              \o (IF fireLeft THEN <<Click("click_left")>> ELSE <<>>)
                              \o (IF fireRight THEN <<Click("click_right")>> ELSE <<>>)
                    /\ last_left_click_time' = IF fireLeft THEN t ELSE last_left_click_time
                    /\ is_left_clicking' = EdgeFlag(left, is_left_clicking, fireLeft)
                    /\ last_right_click_time' = IF fireRight THEN t ELSE last_right_click_time
                    /\ is_right_clicking' = EdgeFlag(right, is_right_clicking, fireRight)
                    /\ result' = 0
                    /\ UNCHANGED <<prev_scroll_y, last_scroll_time>>

\* faulty variant: the smoothing filter is not reset when the hand is lost
NoHand_KeepsFilter ==
    /\ current_mode' = MODE_IDLE
    /\ is_left_clicking' = FALSE
    /\ is_right_clicking' = FALSE
    /\ is_scrolling' = FALSE
    /\ smooth' = None
    /\ result' = 0
    /\ out' = <<>>
    /\ UNCHANGED <<prev_x, prev_y, prev_scroll_y, last_scroll_time,
                   last_left_click_time, last_right_click_time>>

\* faulty variant: the mode is not set when the hand is lost
NoHand_KeepsMode ==
    /\ prev_x' = None
    /\ prev_y' = None
    /\ is_left_clicking' = FALSE
    /\ is_right_clicking' = FALSE
    /\ is_scrolling' = FALSE
    /\ smooth' = None
    /\ result' = 0
    /\ out' = <<>>
    /\ UNCHANGED <<current_mode, prev_scroll_y, last_scroll_time,
                   last_left_click_time, last_right_click_time>>

\* variant: the scroll reference is reset together with the smoothing filter
NoHand_ResetsScrollReference ==
    /\ current_mode' = MODE_IDLE
    /\ prev_x' = None
    /\ prev_y' = None
    /\ prev_scroll_y' = None
    /\ is_left_clicking' = FALSE
    /\ is_right_clicking' = FALSE
    /\ is_scrolling' = FALSE
    /\ smooth' = None
    /\ result' = 0
    /\ out' = <<>>
    /\ UNCHANGED <<last_scroll_time, last_left_click_time, last_right_click_time>>

\* faulty variant: the debounce timestamps are reset when the hand is lost
NoHand_ResetsTimers ==
    /\ current_mode' = MODE_IDLE
    /\ prev_x' = None
    /\ prev_y' = None
    /\ is_left_clicking' = FALSE
    /\ is_right_clicking' = FALSE
    /\ is_scrolling' = FALSE
    /\ smooth' = None
    /\ result' = 0
    /\ out' = <<>>
    /\ last_scroll_time' = 0
    /\ last_left_click_time' = 0
    /\ last_right_click_time' = 0
    /\ UNCHANGED prev_scroll_y

\* faulty variant: the click edge flags survive the loss of the hand
NoHand_KeepsEdgeFlags ==
    /\ current_mode' = MODE_IDLE
    /\ prev_x' = None
    /\ prev_y' = None
    /\ is_scrolling' = FALSE
    /\ smooth' = None
    /\ result' = 0
    /\ out' = <<>>
    /\ UNCHANGED <<is_left_clicking, is_right_clicking, prev_scroll_y,
                   last_scroll_time, last_left_click_time, last_right_click_time>>

\* faulty variant: the scroll-entry flag survives the loss of the hand
NoHand_KeepsScrolling ==
    /\ current_mode' = MODE_IDLE
    /\ prev_x' = None
    /\ prev_y' = None
    /\ is_left_clicking' = FALSE
    /\ is_right_clicking' = FALSE
    /\ is_scrolling' = is_scrolling
    /\ smooth' = None
    /\ result' = 0
    /\ out' = <<>>
    /\ UNCHANGED <<prev_scroll_y, last_scroll_time, last_left_click_time,
                   last_right_click_time>>

\* lines 223-229: no hand detected
NoHand ==
    /\ current_mode' = MODE_IDLE
    /\ prev_x' = None
    /\ prev_y' = None
    /\ is_left_clicking' = FALSE
    /\ is_right_clicking' = FALSE
    /\ is_scrolling' = FALSE
    /\ smooth' = None
    /\ result' = 0
    /\ out' = <<>>
    /\ UNCHANGED <<prev_scroll_y, last_scroll_time, last_left_click_time,
                   last_right_click_time>>

\* one iteration of the while loop of run() whose cap.read() succeeded:
\* hd is None or Some(hand), t is time.time(), key_q is whether waitKey saw 'q'
RunIteration(hd, t, key_q) ==
    /\ running
    /\ t >= current_time
    /\ current_time' = t
    /\ hand_data' = hd
    /\ IF hd # None
       THEN /\ _process_gestures(hd[1], t)
            /\ running' = (~ExitRequested(result') /\ ~key_q)
       ELSE /\ NoHand
            /\ running' = ~key_q

\* faulty variant: the debounce timestamps start one interval in the past
Init_TimersInThePast ==
    /\ current_mode = MODE_IDLE
    /\ last_left_click_time = 0 - (CLICK_DEBOUNCE_TIME + 1)
    /\ last_right_click_time = 0 - (CLICK_DEBOUNCE_TIME + 1)
    /\ last_scroll_time = 0 - (SCROLL_DEBOUNCE_TIME + 1)
    /\ is_left_clicking = FALSE
    /\ is_right_clicking = FALSE
    /\ is_scrolling = FALSE
    /\ prev_x = None
    /\ prev_y = None
    /\ prev_scroll_y = None
    /\ current_time = 0
    /\ running = TRUE
    /\ hand_data = None
    /\ result = 0
    /\ smooth = None
    /\ out = <<>>
    /\ trace = <<>>

Init ==
    /\ current_mode = MODE_IDLE
    /\ last_left_click_time = 0
    /\ last_right_click_time = 0
    /\ last_scroll_time = 0
    /\ is_left_clicking = FALSE
    /\ is_right_clicking = FALSE
    /\ is_scrolling = FALSE
    /\ prev_x = None
    /\ prev_y = None
    /\ prev_scroll_y = None
    /\ current_time = 0
    /\ running = TRUE
    /\ hand_data = None
    /\ result = 0
    /\ smooth = None
    /\ out = <<>>
    /\ trace = <<>>

HandFrame ==
    \E hand \in Samples, t \in ClockReadings :
        /\ RunIteration(Some(hand), t, FALSE)
        /\ UNCHANGED trace

NoHandFrame ==
    \E t \in ClockReadings :
        /\ RunIteration(None, t, FALSE)
        /\ UNCHANGED trace

\* lines 248-250: the quit key is seen at the end of an iteration
QuitFrame ==
    \E t \in ClockReadings :
        /\ RunIteration(None, t, TRUE)
        /\ UNCHANGED trace

\* lines 186-189: cap.read() failed, the iteration is skipped
CaptureFailed ==
    \E t \in ClockReadings :
        /\ running
        /\ t >= current_time
        /\ current_time' = t
        /\ UNCHANGED <<current_mode, last_left_click_time, last_right_click_time,
                       last_scroll_time, is_left_clicking, is_right_clicking,
                       is_scrolling, prev_x, prev_y, prev_scroll_y, running,
                       hand_data, result, smooth, out, trace>>

(***************************************************************************)
(* The same loop with every processed frame recorded, driven by a small    *)
(* set of samples and of gaps between consecutive timestamps.              *)
(***************************************************************************)
FrameRecord(hd, gap) ==
    [hand   |-> hd # None,
     fist   |-> hd # None /\ is_fist(hd[1]),
     left   |-> hd # None /\ _check_left_click(hd[1]),
     right  |-> hd # None /\ _check_right_click(hd[1]),
     raw    |-> IF hd = None THEN None
                ELSE Some(<<get_fingertip(hd[1], "index")[1],
                            get_fingertip(hd[1], "index")[2]>>),
     wrist  |-> IF hd = None THEN None ELSE Some(get_landmark(hd[1], WRIST)[2]),
     tips   |-> IF hd = None THEN None
                ELSE <<get_fingertip(hd[1], "thumb"), get_fingertip(hd[1], "index"),
                       get_fingertip(hd[1], "middle")>>,
     gap    |-> gap,
     calls  |-> Calls(out'),
     out    |-> out',
     left_flag   |-> is_left_clicking',
     right_flag  |-> is_right_clicking',
     left_time   |-> last_left_click_time',
     right_time  |-> last_right_click_time',
     scroll_time |-> last_scroll_time',
     scroll_ref  |-> prev_scroll_y',
     filter      |-> <<prev_x', prev_y'>>,
     scrolling   |-> is_scrolling',
     smooth |-> smooth',
     mode   |-> current_mode',
     result |-> result',
     exit   |-> ~running']

TraceStep(inputs, gaps) ==
    \E hd \in inputs, gap \in gaps :
        /\ Len(trace) < MaxTrace
        /\ RunIteration(hd, current_time + gap, FALSE)
        /\ trace' = Append(trace, FrameRecord(hd, gap))

\* an open hand away from the fail-safe corner, with the four thumb positions;
\* gaps below and above the click debounce interval
ClickInputs ==
    {Some(MkHand(<<1530, 506>>, th, PosePinkyEdge, 1999)) : th \in ThumbOffsets}
ClickGaps == {CLICK_DEBOUNCE_TIME \div 2, CLICK_DEBOUNCE_TIME + 1}
ClickFrames == TraceStep(ClickInputs, ClickGaps)
SpecClicks == Init /\ [][ClickFrames]_vars

\* no hand, an open pinching hand, an open hand elsewhere, a hand entering the
\* fail-safe corner, and a fist at two wrist heights
EpisodeInputs ==
    {None,
     Some(MkHand(<<1530, 506>>, <<60, 0>>, PosePinkyEdge, 1999)),
     Some(MkHand(<<1500, 530>>, <<60, 90>>, PoseOpen, 1999)),
     Some(MkHand(<<1548, 494>>, <<60, 90>>, PoseIndexOut, 1999)),
     Some(MkHand(<<1530, 506>>, <<60, 0>>, PoseFist, 1)),
     Some(MkHand(<<1530, 506>>, <<60, 0>>, PoseFist, 1999))}
EpisodeGaps == {CLICK_DEBOUNCE_TIME + 1}
EpisodeFrames == TraceStep(EpisodeInputs, EpisodeGaps)
SpecEpisodes == Init /\ [][EpisodeFrames]_vars

\* an open hand pinching and not pinching, and a fist at two wrist heights; gaps
\* equal to the scroll and to the click debounce interval
DebounceInputs ==
    {Some(MkHand(<<1530, 506>>, <<60, 0>>, PosePinkyEdge, 1999)),
     Some(MkHand(<<1530, 506>>, <<60, 90>>, PosePinkyEdge, 1999)),
     Some(MkHand(<<1530, 506>>, <<60, 0>>, PoseFist, 1)),
     Some(MkHand(<<1530, 506>>, <<60, 0>>, PoseFist, 1999))}
DebounceGaps == {SCROLL_DEBOUNCE_TIME, CLICK_DEBOUNCE_TIME}
DebounceFrames == TraceStep(DebounceInputs, DebounceGaps)
SpecDebounce == Init /\ [][DebounceFrames]_vars

\* no hand, and an open hand whose index fingertip is at one of four places:
\* two far apart and two within a few units of each other
SmoothTips == {<<1530, 506>>, <<1000, 1000>>, <<1003, 997>>, <<403, 1597>>}
SmoothInputs ==
    {None} \cup {Some(MkHand(tip, <<60, 90>>, PoseOpen, 1999)) : tip \in SmoothTips}
SmoothGaps == {SCROLL_DEBOUNCE_TIME}
SmoothFrames == TraceStep(SmoothInputs, SmoothGaps)
SpecSmooth == Init /\ [][SmoothFrames]_vars

\* an open hand whose index fingertip is outside the camera frame, on the
\* border of the active region, just outside it, or at its centre
ReachTips ==
    {<<0 - 500, 0 - 300>>, <<2500, 2300>>, <<400, 1600>>, <<1600, 1600>>,
     <<1000, 1000>>, <<399, 401>>}
ReachInputs == {Some(MkHand(tip, <<60, 90>>, PoseOpen, 1999)) : tip \in ReachTips}
ReachGaps == {SCROLL_DEBOUNCE_TIME}
ReachFrames == TraceStep(ReachInputs, ReachGaps)
SpecReach == Init /\ [][ReachFrames]_vars

\* map_to_screen on its own: normalized points outside the camera frame, outside
\* the active region, on its border, next to it and inside it; the x values come
\* in pairs symmetric about the midline of the active region
MapXs == {0 - 500, 200, 399, 400, 403, 777, 1000, 1223, 1597, 1600, 1601, 1800, 2500}
MapYs == {0 - 300, 400, 1000, 1600, 2300}
MapPoints == MapXs \X MapYs

\* one call of map_to_screen, recorded with its argument
MapToScreen ==
    \E p \in MapPoints :
        /\ Len(trace) < MaxMapCalls
        /\ trace' = Append(trace, [norm |-> p, screen |-> map_to_screen(p[1], p[2])])
        /\ UNCHANGED <<current_mode, last_left_click_time, last_right_click_time,
                       last_scroll_time, is_left_clicking, is_right_clicking,
                       is_scrolling, prev_x, prev_y, prev_scroll_y, current_time,
                       running, hand_data, result, smooth, out>>
SpecMap == Init /\ [][MapToScreen]_vars

\* an open hand, and a fist at three wrist heights 1, 3 and 4 units apart (a
\* delta of 0.5, 1.5 and 2 scroll steps); gaps equal to and above the scroll
\* debounce interval
ScrollWristYs == {1000, 1001, 1004}
ScrollInputs ==
    {Some(MkHand(<<1530, 506>>, <<60, 90>>, PoseOpen, 1999))}
        \cup {Some(MkHand(<<1530, 506>>, <<60, 0>>, PoseFist, w)) : w \in ScrollWristYs}
ScrollGaps == {SCROLL_DEBOUNCE_TIME, SCROLL_DEBOUNCE_TIME + 1}
ScrollFrames == TraceStep(ScrollInputs, ScrollGaps)
SpecScroll == Init /\ [][ScrollFrames]_vars

\* is_fist on its own: all fingers curled, one finger at exactly 1.2 times the
\* PIP-to-MCP distance or extended, two fingers extended, all extended; with the
\* thumb (tip and the three joints below it) at three places
FistPoses ==
    {PoseFist, PoseOpen}
        \cup {[f \in Fingers |-> IF f = g THEN d ELSE 30] : g \in Fingers, d \in {60, 150}}
        \cup {[f \in Fingers |-> IF f \in {"index", "ring"} THEN 150 ELSE 30]}
PoseThumbs == {<<0 - 30, 0>>, <<60, 90>>, <<0 - 400, 300>>}
PoseHand(pose, th) ==
    [MkHand(<<1530, 506>>, th, pose, 1999) EXCEPT
        ![1] = <<1000 + th[1], 1000 + th[2], 0>>,
        ![2] = <<1100 + th[1], 900 + th[2], 0>>,
        ![3] = <<1200 + th[1], 800 + th[2], 0>>]

\* one call of is_fist, recorded with its argument
IsFistCall ==
    \E pose \in FistPoses, th \in PoseThumbs :
        /\ Len(trace) < MaxPoseCalls
        /\ trace' = Append(trace, [pose |-> pose, thumb |-> th,
                                   hand |-> PoseHand(pose, th),
                                   fist |-> is_fist(PoseHand(pose, th))])
        /\ UNCHANGED <<current_mode, last_left_click_time, last_right_click_time,
                       last_scroll_time, is_left_clicking, is_right_clicking,
                       is_scrolling, prev_x, prev_y, prev_scroll_y, current_time,
                       running, hand_data, result, smooth, out>>
SpecPose == Init /\ [][IsFistCall]_vars

\* hands on the thresholds.  Open hands whose smoothed fingertip maps to a
\* pixel exactly on the fail-safe width (100, 0), exactly on its height
\* (0, 100), and just inside it (99, 99); the thumb is 20 units from the index
\* tip and exactly CLICK_THRESHOLD from the middle tip, and far away in z.
\* Fists at two wrist heights.  Gaps equal to the two debounce intervals.
EdgeHand(tip) ==
    [MkHand(tip, <<20, 0>>, PoseOpen, 1999) EXCEPT
        ![THUMB_TIP] = <<tip[1] + 20, tip[2], 5000>>]
EdgeInputs ==
    {Some(EdgeHand(tip)) : tip \in {<<1537, 400>>, <<1600, 512>>, <<1538, 511>>}}
        \cup {Some(MkHand(<<1400, 700>>, <<60, 0>>, PoseFist, w)) : w \in {1000, 1004}}
EdgeGaps == {SCROLL_DEBOUNCE_TIME, CLICK_DEBOUNCE_TIME}
EdgeFrames ==
    \E hd \in EdgeInputs, gap \in EdgeGaps :
        /\ Len(trace) < MaxEdgeFrames
        /\ RunIteration(hd, current_time + gap, FALSE)
        /\ trace' = Append(trace, FrameRecord(hd, gap))
SpecEdges == Init /\ [][EdgeFrames]_vars

\* map_to_screen and is_in_failsafe_region under other active regions: the
\* configured one, a one-unit sliver, a region at the far end
RegionSpans ==
    {<<ACTIVE_REGION_X_START, ACTIVE_REGION_X_END>>, <<1000, 1001>>, <<1900, CoordScale>>}
RegionCoords == {0 - 300, 1000, 1001, 1900, 2300}
RegionCall ==
    \E xs \in RegionSpans, ys \in RegionSpans, nx \in RegionCoords, ny \in RegionCoords :
        LET scr == MapWithRegion(xs[1], xs[2], ys[1], ys[2], nx, ny)
        IN  /\ Len(trace) < MaxRegionCalls
            /\ trace' = Append(trace, [xs |-> xs, ys |-> ys, norm |-> <<nx, ny>>,
                                       screen |-> scr,
                                       failsafe |-> is_in_failsafe_region(scr[1], scr[2])])
            /\ UNCHANGED <<current_mode, last_left_click_time, last_right_click_time,
                           last_scroll_time, is_left_clicking, is_right_clicking,
                           is_scrolling, prev_x, prev_y, prev_scroll_y, current_time,
                           running, hand_data, result, smooth, out>>
SpecRegion == Init /\ [][RegionCall]_vars

\* no hand, an open hand, a fist at two wrist heights next to the fail-safe
\* corner, and a fist whose index fingertip is in the corner of the camera frame
ModeInputs ==
    {None,
     Some(MkHand(<<1400, 700>>, <<60, 90>>, PoseOpen, 1999)),
     Some(MkHand(<<1500, 560>>, <<60, 0>>, PoseFist, 1000)),
     Some(MkHand(<<1500, 560>>, <<60, 0>>, PoseFist, 1004)),
     Some(MkHand(<<CoordScale, 0>>, <<60, 0>>, PoseFist, 1010))}
ModeGaps == {SCROLL_DEBOUNCE_TIME + 1}
ModeFrames == TraceStep(ModeInputs, ModeGaps)
SpecModes == Init /\ [][ModeFrames]_vars

\* no hand, an open hand pinching both fingers and an open hand not pinching;
\* gaps that keep a re-acquisition within the click debounce interval of the
\* last click or take it beyond
RearmInputs ==
    {None,
     Some(MkHand(<<1530, 506>>, <<60, 0>>, PosePinkyEdge, 1999)),
     Some(MkHand(<<1530, 506>>, <<60, 90>>, PosePinkyEdge, 1999))}
RearmGaps == {SCROLL_DEBOUNCE_TIME, CLICK_DEBOUNCE_TIME}
RearmFrames == TraceStep(RearmInputs, RearmGaps)
SpecRearm == Init /\ [][RearmFrames]_vars

\* the first frames of a run whose clock starts at 0: an open hand pinching
\* both fingers and a fist at two wrist heights; a frame may carry the same
\* timestamp as the one before, or come one scroll or one click debounce
\* interval later
StartInputs ==
    {Some(MkHand(<<1530, 506>>, <<60, 0>>, PosePinkyEdge, 1999)),
     Some(MkHand(<<1530, 506>>, <<60, 0>>, PoseFist, 1000)),
     Some(MkHand(<<1530, 506>>, <<60, 0>>, PoseFist, 1004))}
StartGaps == {0, SCROLL_DEBOUNCE_TIME, CLICK_DEBOUNCE_TIME}
StartFrames ==
    \E hd \in StartInputs, gap \in StartGaps :
        /\ Len(trace) < MaxStartFrames
        /\ RunIteration(hd, current_time + gap, FALSE)
        /\ trace' = Append(trace, FrameRecord(hd, gap))
SpecStart == Init /\ [][StartFrames]_vars

Next == HandFrame \/ NoHandFrame \/ QuitFrame \/ CaptureFailed

Spec == Init /\ [][Next]_vars

(***************************************************************************)
(* Properties                                                              *)
(***************************************************************************)
ClickKinds == {"click_left", "click_right"}
ClickPred(r, k) == IF k = "click_left" THEN r.left ELSE r.right
Debounce(k) == IF k = "scroll" THEN SCROLL_DEBOUNCE_TIME ELSE CLICK_DEBOUNCE_TIME
InFailsafeRect(p) == p[1] < FAILSAFE_X_END /\ p[2] < FAILSAFE_Y_END
MapsIntoFailsafe(sm) == InFailsafeRect(map_to_screen(sm[1][1], sm[1][2]))
IndexRaw(hand) == <<hand[INDEX_FINGER_TIP][1], hand[INDEX_FINGER_TIP][2]>>
ActiveFrame(r) == r.hand /\ ~r.fist /\ ~MapsIntoFailsafe(r.smooth)
ScrollFrame(r) == r.hand /\ r.fist /\ ~MapsIntoFailsafe(r.smooth)
ClickPattern == <<FALSE, TRUE, TRUE, FALSE, TRUE>>

\* the timestamp of the i-th recorded frame: the gaps up to it, summed
RECURSIVE SumGaps(_)
SumGaps(i) == IF i = 0 THEN 0 ELSE trace[i].gap + SumGaps(i - 1)
TimeOf(i) == SumGaps(i)

\* C1: over a sequence of ACTIVE frames a click of a kind fires on a frame only
\* if its pinch predicate is true on that frame and was false on the frame
\* before (a held pinch never re-fires); with consecutive frames further apart
\* than the click debounce interval, the predicate sequence
\* [false, true, true, false, true] fires exactly on its 2nd and 5th frame.
C1_ClickRisingEdge ==
    \A k \in ClickKinds :
        /\ \A i \in 1..Len(trace) :
              (ActiveFrame(trace[i]) /\ k \in trace[i].calls) =>
                  /\ ClickPred(trace[i], k)
                  /\ (i = 1 \/ ~ActiveFrame(trace[i - 1]) \/ ~ClickPred(trace[i - 1], k))
        /\ \A s \in 0..(Len(trace) - 5) :
              ( /\ \A j \in 1..5 : ActiveFrame(trace[s + j])
                /\ \A j \in 1..5 : ClickPred(trace[s + j], k) = ClickPattern[j]
                /\ \A j \in 2..5 : trace[s + j].gap > CLICK_DEBOUNCE_TIME )
              => {j \in 1..5 : k \in trace[s + j].calls} = {2, 5}

C1_Witness ==
    /\ Len(trace) >= 5
    /\ \A j \in 1..5 : ActiveFrame(trace[j]) /\ trace[j].left = ClickPattern[j]
    /\ \A j \in 2..5 : trace[j].gap > CLICK_DEBOUNCE_TIME
    /\ "click_left" \in trace[2].calls
    /\ "click_left" \in trace[5].calls

\* C2: any two frames that emit an action of the same kind (left click, right
\* click, scroll) have timestamps more than that kind's debounce interval apart.
C2_OncePerDebounceInterval ==
    \A k \in Kinds : \A i \in 1..Len(trace) : \A j \in (i + 1)..Len(trace) :
        (k \in trace[i].calls /\ k \in trace[j].calls) =>
            TimeOf(j) - TimeOf(i) > Debounce(k)

C2_Witness ==
    \A k \in ClickKinds : \E i \in 1..Len(trace) : \E j \in (i + 1)..Len(trace) :
        /\ k \in trace[i].calls
        /\ k \in trace[j].calls
        /\ TimeOf(j) - TimeOf(i) = Debounce(k) + 1

\* C3: a processed frame emits at most one discrete action out of left click,
\* right click, scroll and exit.
C3_OneDiscreteActionPerFrame ==
    Cardinality({i \in 1..Len(out) : out[i].call \in Kinds})
        + (IF hand_data # None /\ result = EXIT_CODE THEN 1 ELSE 0) <= 1

\* C4: a hand frame whose smoothed index fingertip maps into the fail-safe
\* rectangle returns the exit value and makes no pyautogui call.
C4_FailsafePrecedence ==
    (hand_data # None /\ MapsIntoFailsafe(smooth)) =>
        (result = EXIT_CODE /\ out = <<>>)

C4_Witness ==
    /\ hand_data # None
    /\ MapsIntoFailsafe(smooth)
    /\ smooth # Some(IndexRaw(hand_data[1]))
    /\ result = EXIT_CODE

\* C5: after a frame that returned the exit value nothing changes any more: no
\* later frame is processed and no action is emitted.
C5_ExitTerminal ==
    [][(hand_data # None /\ result = EXIT_CODE) => UNCHANGED vars]_vars

C5_Witness ==
    /\ hand_data # None
    /\ result = EXIT_CODE
    /\ MapsIntoFailsafe(smooth)
    /\ ~running
    /\ current_time < MaxTime

\* C6: a frame with no hand sets the mode to IDLE, emits nothing and clears the
\* smoothing filter and both click edge flags; the hand frame that follows a
\* no-hand frame returns its raw index fingertip as the smoothed position.
C6_HandLossReset ==
    LET n == Len(trace)
    IN  /\ (n >= 1 /\ ~trace[n].hand) =>
              /\ current_mode = MODE_IDLE
              /\ out = <<>>
              /\ prev_x = None
              /\ prev_y = None
              /\ ~is_left_clicking
              /\ ~is_right_clicking
        /\ (n >= 2 /\ ~trace[n - 1].hand /\ trace[n].hand) =>
              smooth = trace[n].raw

C6_Witness ==
    LET n == Len(trace)
    IN  /\ n >= 3
        /\ trace[n - 2].hand /\ trace[n - 2].left /\ trace[n - 2].right
        /\ ~trace[n - 1].hand
        /\ trace[n].hand /\ trace[n].raw # trace[n - 2].raw
        /\ smooth = trace[n].raw

\* C7: after a frame that does not exit, the mode is IDLE if the frame had no
\* hand, SCROLL if it had a hand making a fist, ACTIVE if it had a hand not
\* making a fist, whatever came before.
C7_ModeFromFrameAlone ==
    (hand_data = None \/ result # EXIT_CODE) =>
        current_mode = (IF hand_data = None THEN MODE_IDLE
                        ELSE IF is_fist(hand_data[1]) THEN MODE_SCROLL
                        ELSE MODE_ACTIVE)

C7_Witness ==
    /\ hand_data = None
    /\ current_mode = MODE_IDLE
    /\ prev_scroll_y # None
    /\ last_left_click_time > 0

C10_NoScrollOnEntry ==
    \A i \in 1..Len(trace) :
        (ScrollFrame(trace[i]) /\ (i = 1 \/ trace[i - 1].mode # MODE_SCROLL)) =>
            (trace[i].result = 0 /\ "scroll" \notin trace[i].calls)

C10_Witness ==
    LET n == Len(trace)
    IN  /\ n >= 3
        /\ ScrollFrame(trace[n - 2]) /\ trace[n - 2].wrist = Some(1)
        /\ trace[n - 1].mode # MODE_SCROLL
        /\ ScrollFrame(trace[n]) /\ trace[n].wrist = Some(1999)
        /\ trace[n].gap > SCROLL_DEBOUNCE_TIME
        /\ prev_scroll_y = Some(1999)
        /\ trace[n].result = 0

\* the scroll debounce timestamp before the i-th recorded frame
ScrollTimeBefore(i) == IF i = 1 THEN 0 ELSE trace[i - 1].scroll_time

\* lines 140-142 on the i-th recorded frame: the delta is non-zero and the
\* scroll debounce interval has elapsed
ScrollDue(i) ==
    /\ trace[i].result # 0
    /\ TimeOf(i) - ScrollTimeBefore(i) > SCROLL_DEBOUNCE_TIME

\* on every SCROLL frame a scroll is emitted iff it is due; the timestamp
\* becomes the frame's time when emitted and is unchanged otherwise
ScrollGate(i) ==
    /\ ("scroll" \in trace[i].calls) <=> ScrollDue(i)
    /\ trace[i].scroll_time = (IF ScrollDue(i) THEN TimeOf(i) ELSE ScrollTimeBefore(i))

\* C11 as stated: on a SCROLL frame a scroll is emitted iff the delta is
\* non-zero and more than the scroll debounce interval has elapsed since the
\* last scroll; the emitted scroll carries that frame's delta and the timestamp
\* becomes the frame's time; otherwise the timestamp is unchanged.
C11_ScrollCarriesDelta ==
    \A i \in 1..Len(trace) : ScrollFrame(trace[i]) =>
        /\ ScrollGate(i)
        /\ ScrollDue(i) => trace[i].out = <<Scroll(trace[i].result)>>

\* C11 amended: as stated, except that the emitted scroll carries the negated
\* delta of the frame (pyautogui.scroll(-scroll_delta)); a frame that emits no
\* scroll makes no call at all.
C11_ScrollCarriesNegatedDelta ==
    \A i \in 1..Len(trace) : ScrollFrame(trace[i]) =>
        /\ ScrollGate(i)
        /\ trace[i].out = (IF ScrollDue(i) THEN <<Scroll(0 - trace[i].result)>> ELSE <<>>)

\* a scroll emitted, a non-zero delta held back by the debounce, and (on entry
\* of the episode) a zero delta with the debounce elapsed
C11_Witness ==
    \E i, j, k \in 1..Len(trace) :
        /\ ScrollFrame(trace[i]) /\ ScrollDue(i) /\ "scroll" \in trace[i].calls
        /\ trace[i].scroll_time = TimeOf(i) /\ TimeOf(i) > 0
        /\ ScrollFrame(trace[j]) /\ trace[j].result # 0 /\ trace[j].out = <<>>
        /\ ScrollFrame(trace[k]) /\ trace[k].result = 0
        /\ TimeOf(k) - ScrollTimeBefore(k) > SCROLL_DEBOUNCE_TIME

\* the positions in out of the calls of the given kinds
CallsAt(kinds) == {i \in 1..Len(out) : out[i].call \in kinds}

\* C12: after a frame that leaves the mode at SCROLL or IDLE no click and no
\* cursor move has been emitted for it, even if the thumb touches the index tip
\* while the fist is held; after a frame processed as ACTIVE (a hand, not a
\* fist, not an exit) exactly one move-to has been emitted, first, at the
\* mapped coordinates of the smoothed fingertip; a scroll is emitted only by a
\* frame that leaves the mode at SCROLL.
C12_ActionsGatedByMode ==
    /\ current_mode \in {MODE_SCROLL, MODE_IDLE} =>
           CallsAt({"moveTo"} \cup ClickKinds) = {}
    /\ (hand_data # None /\ current_mode = MODE_ACTIVE /\ result # EXIT_CODE) =>
           /\ CallsAt({"moveTo"}) = {1}
           /\ <<out[1].a, out[1].b>> = map_to_screen(smooth[1][1], smooth[1][2])
    /\ CallsAt({"scroll"}) # {} =>
           (current_mode = MODE_SCROLL /\ hand_data # None /\ is_fist(hand_data[1]))

\* a fist frame with the thumb on the index tip, the click flag down and the
\* click debounce elapsed, that emits a scroll and nothing else
C12_Witness ==
    /\ current_mode = MODE_SCROLL
    /\ hand_data # None
    /\ _check_left_click(hand_data[1])
    /\ ~is_left_clicking
    /\ current_time - last_left_click_time > CLICK_DEBOUNCE_TIME
    /\ CallsAt({"scroll"}) = {1}
    /\ Len(out) = 1

\* the click edge flag of a kind after the i-th recorded frame (before the first: False)
FlagAfter(i, k) ==
    IF i = 0 THEN FALSE
    ELSE IF k = "click_left" THEN trace[i].left_flag ELSE trace[i].right_flag

\* frames i+1 .. j-1 are a non-empty run of SCROLL frames between the ACTIVE
\* frames i and j
ScrollExcursion(i, j) ==
    /\ j > i + 1
    /\ ActiveFrame(trace[i])
    /\ ActiveFrame(trace[j])
    /\ \A m \in (i + 1)..(j - 1) : ScrollFrame(trace[m])

\* C13: a SCROLL frame leaves both click edge flags as they were; if a pinch
\* predicate is true on the last ACTIVE frame before a run of SCROLL frames and
\* on the first ACTIVE frame after it, no click of that kind fires on that
\* frame, although more than the click debounce interval has elapsed.
C13_ClickEdgeFrozenAcrossScroll ==
    \A k \in ClickKinds :
        /\ \A m \in 1..Len(trace) :
              ScrollFrame(trace[m]) => FlagAfter(m, k) = FlagAfter(m - 1, k)
        /\ \A i \in 1..Len(trace) : \A j \in (i + 2)..Len(trace) :
              (ScrollExcursion(i, j) /\ ClickPred(trace[i], k) /\ ClickPred(trace[j], k))
                  => k \notin trace[j].calls

\* a pinch held from an ACTIVE frame that fired, over two SCROLL frames (one of
\* which scrolls), into the next ACTIVE frame, with the click debounce elapsed
C13_Witness ==
    \E i \in 1..Len(trace) :
        /\ i + 3 <= Len(trace)
        /\ ScrollExcursion(i, i + 3)
        /\ \A k \in ClickKinds :
              /\ k \in trace[i].calls
              /\ ClickPred(trace[i + 3], k)
              /\ FlagAfter(i + 2, k)
              /\ k \notin trace[i + 3].calls
        /\ "scroll" \in trace[i + 2].calls
        /\ TimeOf(i + 3) - trace[i + 3].left_time > CLICK_DEBOUNCE_TIME

\* the debounce timestamp of a kind
LastTime(k) ==
    CASE k = "click_left"  -> last_left_click_time
      [] k = "click_right" -> last_right_click_time
      [] k = "scroll"      -> last_scroll_time

\* a step in which nothing but the clock changes: no frame was processed
ClockOnly ==
    UNCHANGED <<current_mode, last_left_click_time, last_right_click_time,
                last_scroll_time, is_left_clicking, is_right_clicking,
                is_scrolling, prev_x, prev_y, prev_scroll_y, running,
                hand_data, result, smooth, out, trace>>

\* C14: a debounce timestamp changes only in a frame that emits an action of
\* its own kind, and then becomes that frame's timestamp; every frame that
\* emits an action of a kind sets that kind's timestamp; so fires of other
\* kinds, frames that fire nothing, mode changes and hand loss leave it as it was.
C14_TimestampOwnKindOnly ==
    [][\A k \in Kinds :
          /\ LastTime(k)' # LastTime(k) =>
                 (k \in Calls(out') /\ LastTime(k)' = current_time')
          /\ (k \in Calls(out') /\ ~ClockOnly) => LastTime(k)' = current_time']_vars

\* the hand is lost after a right click fired within the click debounce interval
\* of a left click and a scroll fired later: all three timestamps are kept
C14_Witness ==
    /\ hand_data = None
    /\ current_mode = MODE_IDLE
    /\ last_left_click_time > 0
    /\ last_right_click_time > last_left_click_time
    /\ last_right_click_time - last_left_click_time <= CLICK_DEBOUNCE_TIME
    /\ last_scroll_time > last_right_click_time

\* the i-th recorded frame is the first call of smooth_position after a reset
FirstAfterReset(i) == i = 1 \/ ~trace[i - 1].hand

\* s is p + (raw - p) / SMOOTHING_FACTOR, to the nearest unit
IsEmaStep(p, raw, s) ==
    2 * Abs(SMOOTHING_FACTOR * (s - p) - (raw - p)) <= SMOOTHING_FACTOR

\* C15: the first hand frame after a reset returns the raw index fingertip
\* unchanged; every later hand frame returns, per axis, prev + (raw - prev) / k
\* where prev is the value returned by the frame before, not its raw input;
\* the returned value is what the filter stores.
C15_SmoothContract ==
    /\ \A i \in 1..Len(trace) : trace[i].hand =>
           IF FirstAfterReset(i)
           THEN trace[i].smooth = trace[i].raw
           ELSE \A ax \in 1..2 :
                    IsEmaStep(trace[i - 1].smooth[1][ax], trace[i].raw[1][ax],
                              trace[i].smooth[1][ax])
    /\ hand_data # None => (prev_x = Some(smooth[1][1]) /\ prev_y = Some(smooth[1][2]))

\* three hand frames after a reset, at three different places: the second and
\* the third output differ from their raw input and from the previous output
C15_Witness ==
    \E i \in 1..Len(trace) :
        /\ i + 2 <= Len(trace)
        /\ trace[i].hand /\ FirstAfterReset(i) /\ i > 1
        /\ \A j \in {i + 1, i + 2} :
              /\ trace[j].hand
              /\ trace[j].raw # trace[j - 1].raw
              /\ trace[j].smooth # trace[j].raw
              /\ trace[j].smooth # trace[j - 1].smooth
        /\ prev_x = Some(trace[i + 2].smooth[1][1])

\* the i-th recorded frame smooths its raw input from the output of frame i-1
SmoothedFrom(i) == i > 1 /\ trace[i].hand /\ trace[i - 1].hand

\* v lies between a and b
Between(a, v, b) == (a <= v /\ v <= b) \/ (b <= v /\ v <= a)

\* per axis: the output lies between the previous output and the raw input, and
\* is no further from the raw input than the previous output was
NoOvershoot(i) ==
    \A ax \in 1..2 :
        LET p   == trace[i - 1].smooth[1][ax]
            raw == trace[i].raw[1][ax]
            sm  == trace[i].smooth[1][ax]
        IN  /\ Between(p, sm, raw)
            /\ Abs(raw - sm) <= Abs(raw - p)

\* the frame after a reset returns its raw input, and so does every frame
\* that follows it with the same raw input
ExactAfterReset(i) ==
    /\ (trace[i].hand /\ FirstAfterReset(i)) => trace[i].smooth = trace[i].raw
    /\ (SmoothedFrom(i) /\ trace[i - 1].smooth = trace[i].raw) =>
           trace[i].smooth = trace[i].raw

\* C16 as stated: with a constant raw input every output lies between the
\* previous output and the raw input, the distance to the raw input never
\* increases, and the output eventually equals the raw input (so it never
\* stops changing at another value); right after a reset the output equals
\* the raw input on the first frame and on every frame after it.
C16_ConvergesToRaw ==
    \A i \in 1..Len(trace) :
        /\ ExactAfterReset(i)
        /\ SmoothedFrom(i) => NoOvershoot(i)
        /\ (SmoothedFrom(i) /\ trace[i].raw = trace[i - 1].raw
                /\ trace[i - 1].smooth # trace[i].raw) =>
               trace[i].smooth # trace[i - 1].smooth

\* C16 amended: no overshoot, the distance to the raw input never increases,
\* and it strictly decreases on every axis whose remaining step
\* (raw - prev) / k is not lost to rounding; the output may stop changing at a
\* value other than the raw input.  After a reset the output equals the raw
\* input on the first frame and on every frame after it.
C16_ConvergesToRounding ==
    \A i \in 1..Len(trace) :
        /\ ExactAfterReset(i)
        /\ SmoothedFrom(i) =>
               /\ NoOvershoot(i)
               /\ \A ax \in 1..2 :
                      LET p   == trace[i - 1].smooth[1][ax]
                          raw == trace[i].raw[1][ax]
                          sm  == trace[i].smooth[1][ax]
                      IN  2 * Abs(raw - p) > SMOOTHING_FACTOR =>
                              Abs(raw - sm) < Abs(raw - p)

\* a constant raw input fed for three frames from a far filter state, closing
\* in on both axes every frame; and a constant input fed for two frames right
\* after a reset
C16_Witness ==
    /\ \E i \in 1..Len(trace) :
          /\ i + 2 <= Len(trace) /\ i > 1
          /\ \A j \in i..(i + 2) :
                /\ SmoothedFrom(j)
                /\ trace[j].raw = trace[i].raw
                /\ \A ax \in 1..2 :
                      /\ trace[j].smooth[1][ax] # trace[j].raw[1][ax]
                      /\ Abs(trace[j].raw[1][ax] - trace[j].smooth[1][ax])
                            < Abs(trace[j].raw[1][ax] - trace[j - 1].smooth[1][ax])
    /\ \E i \in 1..Len(trace) :
          /\ i + 1 <= Len(trace)
          /\ trace[i].hand /\ FirstAfterReset(i)
          /\ trace[i + 1].hand /\ trace[i + 1].raw = trace[i].raw
          /\ trace[i + 1].smooth = trace[i].raw

\* C17: every move-to emitted, wherever the index fingertip is (inside or
\* outside the camera frame, inside or outside the active region), targets a
\* pixel with 0 <= x <= screen_width - 1 and 0 <= y <= screen_height - 1.
C17_CursorOnScreen ==
    \A i \in CallsAt({"moveTo"}) :
        /\ out[i].a \in 0..(ScreenWidth - 1)
        /\ out[i].b \in 0..(ScreenHeight - 1)

\* a fingertip left of and above the camera frame, following one right of and
\* below it, moves the cursor to the last pixel column
C17_Witness ==
    /\ Len(trace) >= 2
    /\ trace[Len(trace)].raw = Some(<<0 - 500, 0 - 300>>)
    /\ trace[Len(trace) - 1].raw = Some(<<2500, 2300>>)
    /\ smooth[1][1] < ACTIVE_REGION_X_START
    /\ CallsAt({"moveTo"}) = {1}
    /\ out[1].a = ScreenWidth - 1

\* the point of the active region nearest to p: each coordinate clamped to
\* [start, end] on its own
NearestInRegion(p) ==
    <<IF p[1] < ACTIVE_REGION_X_START THEN ACTIVE_REGION_X_START
      ELSE IF p[1] > ACTIVE_REGION_X_END THEN ACTIVE_REGION_X_END ELSE p[1],
      IF p[2] < ACTIVE_REGION_Y_START THEN ACTIVE_REGION_Y_START
      ELSE IF p[2] > ACTIVE_REGION_Y_END THEN ACTIVE_REGION_Y_END ELSE p[2]>>

\* C18: a point outside the active region maps to the same pixel as the
\* nearest point of the region's boundary.
C18_MapClampsToBoundary ==
    \A i, j \in 1..Len(trace) :
        (trace[i].norm # NearestInRegion(trace[i].norm)
            /\ trace[j].norm = NearestInRegion(trace[i].norm)) =>
                trace[i].screen = trace[j].screen

\* a point beyond the y end of the active region and the boundary point nearest
\* to it, both mapped to the last pixel row
C18_Witness ==
    /\ Len(trace) = 2
    /\ trace[1].norm[2] > ACTIVE_REGION_Y_END
    /\ trace[1].norm[1] \notin {ACTIVE_REGION_X_START, ACTIVE_REGION_X_END}
    /\ trace[2].norm = NearestInRegion(trace[1].norm)
    /\ trace[2].norm # trace[1].norm
    /\ trace[1].screen = trace[2].screen
    /\ trace[1].screen[2] = ScreenHeight - 1

\* C19: two points with equal y whose x are symmetric about the vertical
\* midline of the active region map to screen x that are symmetric about the
\* midline of the screen (their sum is screen_width - 1 up to one pixel), and
\* a larger normalized x never maps to a larger screen x.
C19_Mirroring ==
    \A i, j \in 1..Len(trace) :
        /\ (trace[i].norm[2] = trace[j].norm[2]
               /\ trace[i].norm[1] + trace[j].norm[1]
                    = ACTIVE_REGION_X_START + ACTIVE_REGION_X_END) =>
              Abs(trace[i].screen[1] + trace[j].screen[1] - (ScreenWidth - 1)) <= 1
        /\ trace[i].norm[1] < trace[j].norm[1] =>
              trace[i].screen[1] >= trace[j].screen[1]

\* two different points inside the active region, symmetric about its midline,
\* mapped to different pixels strictly inside the screen
C19_Witness ==
    /\ Len(trace) = 2
    /\ trace[1].norm[2] = trace[2].norm[2]
    /\ trace[1].norm[1] + trace[2].norm[1] = ACTIVE_REGION_X_START + ACTIVE_REGION_X_END
    /\ ACTIVE_REGION_X_START < trace[1].norm[1]
    /\ trace[1].norm[1] < trace[2].norm[1]
    /\ trace[2].norm[1] < ACTIVE_REGION_X_END
    /\ trace[1].screen[1] > trace[2].screen[1]
    /\ trace[2].screen[1] > 0
    /\ trace[1].screen[1] + trace[2].screen[1] = ScreenWidth - 1

\* the centre of the active region, and the centre of the screen (the screen
\* dimensions are even)
RegionCentre ==
    <<(ACTIVE_REGION_X_START + ACTIVE_REGION_X_END) \div 2,
      (ACTIVE_REGION_Y_START + ACTIVE_REGION_Y_END) \div 2>>
ScreenCentre == <<ScreenWidth \div 2, ScreenHeight \div 2>>

\* C20: the centre of the active region maps to the centre of the screen,
\* (screen_width / 2, screen_height / 2), within one pixel on each axis.
C20_CentreToCentre ==
    \A i \in 1..Len(trace) :
        trace[i].norm = RegionCentre =>
            /\ Abs(trace[i].screen[1] - ScreenCentre[1]) <= 1
            /\ Abs(trace[i].screen[2] - ScreenCentre[2]) <= 1

C20_Witness ==
    /\ Len(trace) >= 1
    /\ trace[Len(trace)].norm = RegionCentre
    /\ Abs(trace[Len(trace)].screen[1] - ScreenCentre[1]) <= 1
    /\ Abs(trace[Len(trace)].screen[2] - ScreenCentre[2]) <= 1
    /\ trace[Len(trace)].screen[1] \in 1..(ScreenWidth - 2)

\* the i-th recorded frame is a SCROLL frame that follows a SCROLL frame: its
\* call of calculate_scroll_delta is not the first after a reset
ScrollContinues(i) ==
    i > 1 /\ ScrollFrame(trace[i]) /\ ScrollFrame(trace[i - 1])

\* the wrist displacement of the i-th frame, times scroll_sensitivity * 100
\* (in units of 1 / CoordScale)
ScaledWristStep(i) ==
    (trace[i].wrist[1] - trace[i - 1].wrist[1]) * SCROLL_SENSITIVITY * 100

\* r is v / CoordScale truncated toward zero
IsTruncation(v, r) ==
    /\ r * v >= 0
    /\ Abs(r) * CoordScale <= Abs(v)
    /\ Abs(v) < (Abs(r) + 1) * CoordScale

\* C21: the first SCROLL frame of an episode returns 0; every later one
\* returns (y_n - y_(n-1)) * scroll_sensitivity * 100 truncated toward zero,
\* whatever the wrist heights before y_(n-1) were; after every SCROLL frame the
\* stored reference is that frame's wrist height.
C21_ScrollDeltaInterFrame ==
    /\ \A i \in 1..Len(trace) : ScrollFrame(trace[i]) =>
           IF ScrollContinues(i)
           THEN IsTruncation(ScaledWristStep(i), trace[i].result)
           ELSE trace[i].result = 0
    /\ (Len(trace) >= 1 /\ ScrollFrame(trace[Len(trace)])) =>
           prev_scroll_y = trace[Len(trace)].wrist

\* three SCROLL frames in a row at three wrist heights: the second returns 2
\* for a step of 2.0, the third -1 for a step of -1.5 and not the 0 of the
\* displacement since the first
C21_Witness ==
    \E i \in 1..Len(trace) :
        /\ i + 2 <= Len(trace)
        /\ ScrollFrame(trace[i])
        /\ ScrollContinues(i + 1) /\ ScrollContinues(i + 2)
        /\ trace[i].wrist # trace[i + 2].wrist
        /\ trace[i + 1].result = 2
        /\ trace[i + 2].result = 0 - 1
        /\ prev_scroll_y = trace[Len(trace)].wrist

\* the planar tip-to-MCP distance of a finger is strictly less than 1.2 times
\* its planar PIP-to-MCP distance (both sides squared, times 100)
CurledByDistance(hand, f) ==
    LET tip == hand[finger_tips(f)]
        pip == hand[finger_tips(f) - 2]
        mcp == hand[finger_tips(f) - 3]
    IN  100 * ((tip[1] - mcp[1]) * (tip[1] - mcp[1]) + (tip[2] - mcp[2]) * (tip[2] - mcp[2]))
          < 144 * ((pip[1] - mcp[1]) * (pip[1] - mcp[1]) + (pip[2] - mcp[2]) * (pip[2] - mcp[2]))

TimeBefore(i, k) ==
    IF i = 1 THEN 0
    ELSE CASE k = "click_left"  -> trace[i - 1].left_time
           [] k = "click_right" -> trace[i - 1].right_time
           [] k = "scroll"      -> trace[i - 1].scroll_time

\* the squared planar distance of two fingertips, z left out
PlanarSq(p, q) == (p[1] - q[1]) * (p[1] - q[1]) + (p[2] - q[2]) * (p[2] - q[2])

\* the pixel the smoothed fingertip of a recorded frame maps to
ScreenOf(r) == map_to_screen(r.smooth[1][1], r.smooth[1][2])

\* C23: every threshold comparison is strict.  A pinch predicate is true iff
\* the planar thumb-to-finger distance is strictly below the click threshold
\* (z plays no part); an action whose elapsed time since its last fire equals
\* its debounce interval does not fire; a pixel whose x equals the fail-safe
\* width or whose y equals its height does not trigger the exit.
C23_StrictThresholds ==
    \A i \in 1..Len(trace) :
        /\ trace[i].left <=>
               PlanarSq(trace[i].tips[1], trace[i].tips[2]) < CLICK_THRESHOLD * CLICK_THRESHOLD
        /\ trace[i].right <=>
               PlanarSq(trace[i].tips[1], trace[i].tips[3]) < CLICK_THRESHOLD * CLICK_THRESHOLD
        /\ \A k \in Kinds :
               TimeOf(i) - TimeBefore(i, k) = Debounce(k) => k \notin trace[i].calls
        /\ (ScreenOf(trace[i])[1] = FAILSAFE_X_END \/ ScreenOf(trace[i])[2] = FAILSAFE_Y_END)
               => trace[i].result # EXIT_CODE

\* first an open hand whose thumb is exactly CLICK_THRESHOLD from the middle
\* tip and close to the index tip, exactly CLICK_DEBOUNCE_TIME after the start
\* and mapped exactly onto the fail-safe height: no right pinch, a left pinch
\* that does not fire, no exit.  Then a fist that scrolls, and a fist whose
\* non-zero delta comes exactly SCROLL_DEBOUNCE_TIME later and is not emitted.
C23_Witness ==
    /\ Len(trace) = 4
    /\ trace[1].gap = CLICK_DEBOUNCE_TIME
    /\ PlanarSq(trace[1].tips[1], trace[1].tips[3]) = CLICK_THRESHOLD * CLICK_THRESHOLD
    /\ trace[1].tips[1][3] # trace[1].tips[2][3]
    /\ trace[1].left /\ ~trace[1].right
    /\ trace[1].calls = {"moveTo"}
    /\ ScreenOf(trace[1])[2] = FAILSAFE_Y_END
    /\ "scroll" \in trace[3].calls
    /\ trace[4].gap = SCROLL_DEBOUNCE_TIME
    /\ trace[4].result # 0
    /\ trace[4].calls = {}

\* C24: is_in_failsafe_region is true iff x < FAILSAFE_X_END and
\* y < FAILSAFE_Y_END; whatever the active region (x_start < x_end,
\* y_start < y_end), a point with norm_x >= x_end and norm_y <= y_start maps to
\* pixel (0, 0), which is in the region; with the configured region the mapping
\* is map_to_screen.
C24_FailsafeReachable ==
    \A i \in 1..Len(trace) :
        /\ trace[i].failsafe <=>
               (trace[i].screen[1] < FAILSAFE_X_END /\ trace[i].screen[2] < FAILSAFE_Y_END)
        /\ (trace[i].norm[1] >= trace[i].xs[2] /\ trace[i].norm[2] <= trace[i].ys[1]) =>
               (trace[i].screen = <<0, 0>> /\ trace[i].failsafe)
        /\ (trace[i].xs = <<ACTIVE_REGION_X_START, ACTIVE_REGION_X_END>>
               /\ trace[i].ys = <<ACTIVE_REGION_Y_START, ACTIVE_REGION_Y_END>>) =>
               trace[i].screen = map_to_screen(trace[i].norm[1], trace[i].norm[2])

\* a region other than the configured one, and a point beyond its x end and
\* before its y start, in the fail-safe region
C24_Witness ==
    /\ Len(trace) = 1
    /\ trace[1].xs = <<1000, 1001>>
    /\ trace[1].ys = <<1900, CoordScale>>
    /\ trace[1].norm[1] > trace[1].xs[2]
    /\ trace[1].norm[2] < trace[1].ys[1]
    /\ trace[1].screen = <<0, 0>>
    /\ trace[1].failsafe

\* what the frame before the i-th left behind (the initial values for i = 1)
FilterBefore(i) == IF i = 1 THEN <<None, None>> ELSE trace[i - 1].filter
ModeBefore(i) == IF i = 1 THEN MODE_IDLE ELSE trace[i - 1].mode
ScrollRefBefore(i) == IF i = 1 THEN None ELSE trace[i - 1].scroll_ref
ScrollingBefore(i) == IF i = 1 THEN FALSE ELSE trace[i - 1].scrolling

\* a coordinate outside the normalized range [0, 1]
OutOfRange(v) == v < 0 \/ v > CoordScale

\* C25: a hand sample with a coordinate outside [0, 1] is rejected: the frame
\* emits no move, click or scroll and leaves the filter state, the scroll
\* reference, the click edge flags, the debounce timestamps and the mode as
\* they were.
C25_MalformedRejected ==
    \A i \in 1..Len(trace) :
        (trace[i].hand /\ \E ax \in 1..2 : OutOfRange(trace[i].raw[1][ax])) =>
            /\ trace[i].out = <<>>
            /\ trace[i].filter = FilterBefore(i)
            /\ trace[i].mode = ModeBefore(i)
            /\ trace[i].scroll_ref = ScrollRefBefore(i)
            /\ \A k \in ClickKinds : FlagAfter(i, k) = FlagAfter(i - 1, k)
            /\ \A k \in Kinds : TimeBefore(i + 1, k) = TimeBefore(i, k)

\* frames i..j are ACTIVE frames on all of which the pinch of kind k is made
HeldOver(i, j, k) ==
    \A m \in i..j : ActiveFrame(trace[m]) /\ ClickPred(trace[m], k)

\* the i-th frame is a rising edge of kind k that did not fire
SuppressedEdge(i, k) ==
    /\ ActiveFrame(trace[i])
    /\ ClickPred(trace[i], k)
    /\ ~FlagAfter(i - 1, k)
    /\ k \notin trace[i].calls

\* C26: after every ACTIVE frame each click edge flag equals that frame's
\* predicate, whether or not a click fired; if a rising edge is suppressed by
\* the debounce interval and the pinch is then held over further ACTIVE frames,
\* no click of that kind fires during the hold, however long it lasts.
C26_SuppressedEdgeConsumed ==
    \A k \in ClickKinds : \A i \in 1..Len(trace) :
        /\ ActiveFrame(trace[i]) => (FlagAfter(i, k) = ClickPred(trace[i], k))
        /\ \A j \in i..Len(trace) :
               (SuppressedEdge(i, k) /\ HeldOver(i, j, k)) => k \notin trace[j].calls

\* a left click, a release, a second pinch within the debounce interval of
\* that click, and the pinch still held after the interval has elapsed
C26_Witness ==
    \E i \in 2..Len(trace) : \E j \in (i + 1)..Len(trace) :
        /\ "click_left" \in trace[1].calls
        /\ SuppressedEdge(i, "click_left")
        /\ HeldOver(i, j, "click_left")
        /\ TimeOf(j) - TimeBefore(i, "click_left") > CLICK_DEBOUNCE_TIME
        /\ trace[j].left_flag
        /\ trace[j].left_time = TimeBefore(i, "click_left")

\* C27: a fist frame whose smoothed index fingertip maps into the fail-safe
\* rectangle ends the run with the exit value, emits no scroll (nothing at
\* all), and leaves the mode, the scroll-entry flag, the scroll reference and
\* the scroll timestamp as the frame before left them.
C27_ExitBeforeScroll ==
    \A i \in 1..Len(trace) :
        (trace[i].hand /\ trace[i].fist /\ MapsIntoFailsafe(trace[i].smooth)) =>
            /\ trace[i].exit
            /\ trace[i].result = EXIT_CODE
            /\ trace[i].out = <<>>
            /\ trace[i].mode = ModeBefore(i)
            /\ trace[i].scrolling = ScrollingBefore(i)
            /\ trace[i].scroll_ref = ScrollRefBefore(i)
            /\ trace[i].scroll_time = TimeBefore(i, "scroll")

\* a scroll episode that has emitted a scroll, then a fist frame in the corner
\* whose wrist has moved on and whose debounce interval has elapsed
C27_Witness ==
    \E i \in 3..Len(trace) :
        /\ trace[i].fist
        /\ MapsIntoFailsafe(trace[i].smooth)
        /\ trace[i].exit
        /\ "scroll" \in trace[i - 1].calls
        /\ trace[i].mode = MODE_SCROLL
        /\ trace[i].scrolling
        /\ trace[i].scroll_ref = Some(1004)
        /\ trace[i].wrist = Some(1010)
        /\ TimeOf(i) - trace[i].scroll_time > SCROLL_DEBOUNCE_TIME

\* the filter state after the i-th frame is the raw index fingertip if the
\* state before was unset, and one smoothing step from the state before
\* towards the raw fingertip otherwise
FilterAdvanced(i) ==
    \A ax \in 1..2 :
        /\ trace[i].filter[ax] # None
        /\ IF FilterBefore(i)[ax] = None
           THEN trace[i].filter[ax][1] = trace[i].raw[1][ax]
           ELSE IsEmaStep(FilterBefore(i)[ax][1], trace[i].raw[1][ax],
                          trace[i].filter[ax][1])

\* the i-th frame is an ACTIVE frame that follows a SCROLL frame
FirstActiveAfterScroll(i) ==
    i > 1 /\ ActiveFrame(trace[i]) /\ ScrollFrame(trace[i - 1])

\* C28: every hand frame advances the filter state from the index fingertip,
\* SCROLL frames and fail-safe frames included; the cursor target of the first
\* ACTIVE frame after a run of SCROLL frames is the mapped filter state, which
\* is one step from the state the last SCROLL frame left; the filter state is
\* unset after a frame iff the frame had no hand.
C28_FilterAdvancesInEveryMode ==
    \A i \in 1..Len(trace) :
        /\ trace[i].hand => (FilterAdvanced(i) /\ trace[i].smooth[1] =
                                <<trace[i].filter[1][1], trace[i].filter[2][1]>>)
        /\ FirstActiveAfterScroll(i) =>
               /\ trace[i].out[1].call = "moveTo"
               /\ <<trace[i].out[1].a, trace[i].out[1].b>> = ScreenOf(trace[i])
        /\ (trace[i].filter = <<None, None>>) <=> ~trace[i].hand

\* an ACTIVE frame, two SCROLL frames that move the filter state, and an
\* ACTIVE frame with the first one's fingertip whose filter state is not the
\* first one's
C28_Witness ==
    /\ Len(trace) >= 4
    /\ ActiveFrame(trace[1])
    /\ ScrollFrame(trace[2])
    /\ ScrollFrame(trace[3])
    /\ trace[2].filter # trace[1].filter
    /\ trace[3].filter # trace[2].filter
    /\ FirstActiveAfterScroll(4)
    /\ trace[4].raw = trace[1].raw
    /\ trace[4].filter # trace[1].filter
    /\ "moveTo" \in trace[4].calls

\* C29: between frames is_scrolling is true iff current_mode is SCROLL.  So a
\* SCROLL frame resets the scroll reference, and returns 0 whatever reference
\* was stored, exactly when the frame before left the mode at IDLE or ACTIVE
\* or there was no frame before; a SCROLL frame that follows a SCROLL frame
\* keeps the reference and returns the scaled wrist step, truncated.
C29_ScrollFlagIsMode ==
    /\ is_scrolling <=> (current_mode = MODE_SCROLL)
    /\ \A i \in 1..Len(trace) :
           /\ trace[i].scrolling <=> (trace[i].mode = MODE_SCROLL)
           /\ ScrollFrame(trace[i]) =>
                  IF ModeBefore(i) \in {MODE_IDLE, MODE_ACTIVE}
                  THEN trace[i].result = 0
                  ELSE /\ ScrollingBefore(i)
                       /\ ScrollRefBefore(i) = trace[i - 1].wrist
                       /\ IsTruncation(ScaledWristStep(i), trace[i].result)

\* a SCROLL frame, a no-hand frame that leaves the reference stored, a SCROLL
\* frame at another wrist height that returns 0, and a SCROLL frame after it
\* that returns the step from its predecessor
C29_Witness ==
    /\ Len(trace) >= 4
    /\ ScrollFrame(trace[1])
    /\ ~trace[2].hand
    /\ trace[2].mode = MODE_IDLE
    /\ ~trace[2].scrolling
    /\ trace[2].scroll_ref = Some(1000)
    /\ ScrollFrame(trace[3])
    /\ trace[3].wrist = Some(1004)
    /\ trace[3].result = 0
    /\ ScrollFrame(trace[4])
    /\ trace[4].wrist = Some(1000)
    /\ trace[4].result = 0 - 2

\* the delta emitted by the i-th frame: its scroll delta if a scroll was
\* emitted, 0 otherwise
Emitted(i) == IF "scroll" \in trace[i].calls THEN trace[i].result ELSE 0
RECURSIVE EmittedSum(_, _)
EmittedSum(i, j) == IF j < i THEN 0 ELSE Emitted(j) + EmittedSum(i, j - 1)

\* frames i..j are consecutive SCROLL frames
ScrollRun(i, j) == i < j /\ \A m \in i..j : ScrollFrame(trace[m])

\* the wrist displacement from frame i to frame j, scaled and truncated, is
\* larger in magnitude than what frames i+1..j emitted
EmittedShortOfTotal(i, j) ==
    \E total \in (0 - 4)..4 :
        /\ IsTruncation((trace[j].wrist[1] - trace[i].wrist[1]) * SCROLL_SENSITIVITY * 100,
                        total)
        /\ Abs(EmittedSum(i + 1, j)) < Abs(total)

\* C30: after every SCROLL frame the scroll reference is that frame's wrist
\* height, also when the frame's scroll was suppressed by the debounce interval
\* or its delta was 0; a SCROLL frame whose own scaled wrist step is below 1 in
\* magnitude emits no scroll, whatever motion earlier frames left unemitted;
\* and no frame emits more than its own step.
C30_UnemittedMotionDropped ==
    \A i \in 1..Len(trace) :
        /\ ScrollFrame(trace[i]) => trace[i].scroll_ref = trace[i].wrist
        /\ ScrollContinues(i) =>
               /\ Abs(ScaledWristStep(i)) < CoordScale => "scroll" \notin trace[i].calls
               /\ IsTruncation(ScaledWristStep(i), trace[i].result)
               /\ Abs(Emitted(i)) * CoordScale <= Abs(ScaledWristStep(i))

\* an episode in which a step too small to emit is followed by a larger one,
\* so that less is emitted than the wrist travelled, and in which a later
\* non-zero delta is suppressed by the debounce interval and dropped
C30_Witness ==
    /\ Len(trace) >= 4
    /\ ScrollRun(1, 4)
    /\ trace[2].result = 0
    /\ "scroll" \in trace[3].calls
    /\ EmittedShortOfTotal(1, 3)
    /\ trace[4].result # 0
    /\ "scroll" \notin trace[4].calls
    /\ trace[4].scroll_ref = trace[4].wrist

\* frames i+1 .. j-1 are one or more no-hand frames between the ACTIVE frames
\* i and j
HandLossBetween(i, j) ==
    /\ j > i + 1
    /\ ActiveFrame(trace[i])
    /\ ActiveFrame(trace[j])
    /\ \A m \in (i + 1)..(j - 1) : ~trace[m].hand

\* C31: a no-hand frame clears both click edge flags and keeps the three
\* debounce timestamps; so if a pinch is made on an ACTIVE frame, the hand is
\* lost for one or more frames, and the pinch is made again on the first ACTIVE
\* frame after, a click of that kind fires on that frame iff more than the
\* click debounce interval has elapsed since that kind's last fire.
C31_HandLossRearmsPinch ==
    \A k \in ClickKinds : \A i \in 1..Len(trace) :
        /\ ~trace[i].hand =>
               /\ ~FlagAfter(i, k)
               /\ \A kk \in Kinds : TimeBefore(i + 1, kk) = TimeBefore(i, kk)
        /\ \A j \in (i + 1)..Len(trace) :
               (HandLossBetween(i, j) /\ ClickPred(trace[i], k) /\ ClickPred(trace[j], k)) =>
                   (k \in trace[j].calls <=>
                        TimeOf(j) - TimeBefore(j, k) > CLICK_DEBOUNCE_TIME)

\* a pinch that fires both clicks, a no-hand frame that keeps their timestamps,
\* and the same pinch firing both again one debounce interval and a frame later
C31_Witness ==
    \E i \in 1..Len(trace) : \E j \in (i + 1)..Len(trace) :
        /\ HandLossBetween(i, j)
        /\ ClickKinds \subseteq trace[i].calls
        /\ trace[i].left_flag
        /\ ~trace[j - 1].left_flag
        /\ trace[j - 1].left_time = TimeOf(i)
        /\ ClickKinds \subseteq trace[j].calls
        /\ TimeOf(j) - TimeOf(i) = CLICK_DEBOUNCE_TIME + SCROLL_DEBOUNCE_TIME

\* the i-th frame is the first of the run to emit an action of kind k
FirstFire(i, k) ==
    k \in trace[i].calls /\ \A m \in 1..(i - 1) : k \notin trace[m].calls

\* the i-th frame is an ACTIVE frame on which the pinch of kind k is newly made
RisingEdge(i, k) ==
    ActiveFrame(trace[i]) /\ ClickPred(trace[i], k) /\ ~FlagAfter(i - 1, k)

\* C32: before the first frame the three debounce timestamps are 0.  With the
\* clock starting at 0, the first fire of each kind comes on a frame whose
\* timestamp is strictly greater than the kind's debounce interval: a rising
\* click edge at t <= CLICK_DEBOUNCE_TIME does not fire, raises the edge flag
\* and does not fire later while the pinch is held; a non-zero scroll delta at
\* t <= SCROLL_DEBOUNCE_TIME emits no scroll.
C32_FirstFireAfterInterval ==
    /\ trace = <<>> =>
           (last_left_click_time = 0 /\ last_right_click_time = 0 /\ last_scroll_time = 0)
    /\ \A i \in 1..Len(trace) :
           /\ \A k \in Kinds : FirstFire(i, k) => TimeOf(i) > Debounce(k)
           /\ \A k \in ClickKinds :
                  (RisingEdge(i, k) /\ TimeOf(i) <= CLICK_DEBOUNCE_TIME) =>
                      /\ k \notin trace[i].calls
                      /\ FlagAfter(i, k)
                      /\ \A j \in i..Len(trace) :
                             HeldOver(i, j, k) => k \notin trace[j].calls
           /\ (ScrollFrame(trace[i]) /\ trace[i].result # 0
                  /\ TimeOf(i) <= SCROLL_DEBOUNCE_TIME) =>
                  ("scroll" \notin trace[i].calls /\ trace[i].scroll_time = 0)

\* a wrist step at time 1 that emits no scroll, then a pinch first made at
\* time 2 and still held at time 8, with no click and every timestamp still 0
C32_Witness ==
    /\ Len(trace) = 4
    /\ ScrollFrame(trace[1])
    /\ ScrollFrame(trace[2])
    /\ TimeOf(2) = SCROLL_DEBOUNCE_TIME
    /\ trace[2].result = 2
    /\ trace[2].out = <<>>
    /\ RisingEdge(3, "click_left")
    /\ TimeOf(3) <= CLICK_DEBOUNCE_TIME
    /\ HeldOver(3, 4, "click_left")
    /\ TimeOf(4) > CLICK_DEBOUNCE_TIME
    /\ trace[4].calls = {"moveTo"}
    /\ trace[4].left_flag
    /\ trace[4].left_time = 0
    /\ trace[4].scroll_time = 0

====
